---- MODULE Spec2Model ----
(***************************************************************************)
(* Model of the "add parameters to Revit types" app:                       *)
(*   app/model_translation.py  token cache, capability probe, translation  *)
(*                             poll loop                                    *)
(*   app/controller.py         Controller.process_with_workitem,            *)
(*                             Controller.download_updated_model,           *)
(*                             Controller.clear_da_storage,                 *)
(*                             Controller.create_json_from_params           *)
(* The remote services (token endpoint, Model Derivative, Design           *)
(* Automation, OSS, VIKTOR storage) are the environment: every answer they *)
(* can give is an input drawn with \E in the step that reads it.           *)
(***************************************************************************)
EXTENDS Integers, Sequences, FiniteSets, TLC

\* ------------------------------------------------------------------ bounds
\* Number of process_with_workitem invocations that get as far as creating a
\* bucket (each one draws a fresh uuid4 bucket key).
MaxRuns == 2
\* Number of POSTs to the token endpoint in the stand-alone token-cache specification.
MaxCalls == 4
\* Number of translate_da_result_for_viewing calls made for one and the same
\* object in the stand-alone translation specification.
MaxTranslateCalls == 2
\* Longest "children" list of the manifests handed to extract_viewables.
MaxChildren == 2
\* Longest object key handed to safe_base64_encode's callers.
MaxKeyLen == 2
\* Largest number of rows of the targets table.
MaxRows == 3

\* ------------------------------------------------------- program constants
\* translate_da_result_for_viewing: max_wait_time, poll_interval
MaxWaitTime == 300
poll_interval == 15
\* get_revit_version_from_oss_object: max_wait, interval
max_wait == 60
interval == 5
\* @lru_cache(maxsize=1)
LruMaxsize == 1

STORED_OUTPUT_FILE_KEY == "da_output_file"
STORED_OUTPUT_URN_KEY == "da_output_urn"
StorageKeys == {STORED_OUTPUT_FILE_KEY, STORED_OUTPUT_URN_KEY}

REVIT_VERSION_CONFIG ==
    [v \in {"2023", "2024", "2025", "2026"} |->
        CASE v = "2023" -> [engine |-> "Autodesk.Revit+2023",
                            activity_name |-> "TypeParametersActivity2023",
                            alias |-> "dev"]
          [] v = "2024" -> [engine |-> "Autodesk.Revit+2024",
                            activity_name |-> "TypeParametersActivity2024",
                            alias |-> "dev"]
          [] v = "2025" -> [engine |-> "Autodesk.Revit+2025",
                            activity_name |-> "TypeParametersActivity2025",
                            alias |-> "dev"]
          [] v = "2026" -> [engine |-> "Autodesk.Revit+2026",
                            activity_name |-> "TypeParametersActivity2026",
                            alias |-> "dev"]]

\* Defined by the source and never read by it.
DEFAULT_REVIT_VERSION == "2024"

\* --------------------------------------------------- environment's answers
\* "absent": the key is missing from the JSON document.
Absent == "absent"
\* None, as returned by get_revit_version_from_oss_object.
None == "None"

\* The manifest's "status" values of the Model Derivative service.
ManifestStatuses == {"pending", "inprogress", "success", "failed", "timeout"}
\* Values of derivatives[].properties["Document Information"].RVTVersion.
RVTVersions == {"2023", "2024", "2025", "2026", "2099", ""}

\* HTTP answers of GET .../manifest.  code 0: no HTTP answer at all (connection
\* error, read timeout); 202: accepted, no body; 500: an error status.
HttpFailures == {[code |-> 0, status |-> Absent, version |-> Absent],
                 [code |-> 500, status |-> Absent, version |-> Absent]}
Http202 == [code |-> 202, status |-> Absent, version |-> Absent]
ManifestResponses ==
    {[code |-> 200, status |-> s, version |-> v] :
        s \in ManifestStatuses \cup {Absent}, v \in RVTVersions \cup {Absent}}
    \cup {Http202} \cup HttpFailures
\* The translation poll loop reads only code and status.
StatusResponses == {r \in ManifestResponses : r.version = Absent}
NoResponse == [code |-> -1, status |-> Absent, version |-> Absent]

\* Credential pairs handed to get_token; "env" is (CLIENT_ID, CLIENT_SECRET).
EnvCredential == "env"
Credentials == {EnvCredential, "other1", "other2"}

\* Final "status" of WorkItem.execute's answer ("": the key is missing).
WorkItemStatuses == {"success", "failed", "cancelled", ""}

VARIABLES
    pc,               \* position of the running handler ("idle": none running)
    result,           \* outcome of the last handler that ended
    runs,             \* buckets created so far; the current bucket_key
    storage,          \* VIKTOR entity storage: key -> 0 (absent) or the run that wrote it
    written,          \* storage keys set by the current process_with_workitem run
    calls,            \* calls made and returned by the current run, in order
    inflight,         \* remote jobs started by the current run and not yet seen terminal
    elapsed,          \* probe loop: elapsed
    probe_fetches,    \* probe loop: fetch_manifest calls made
    probe_resp,       \* probe loop: answer to the last fetch_manifest
    revit_version,    \* controller: revit_version (None or a string)
    activity,         \* controller: activity_name the work item targets
    last_status,      \* controller: last_status, the work item's final status
    max_wait_time,    \* translate: max_wait_time
    elapsed_time,     \* translate: elapsed_time
    fetches,          \* translate: get_translation_status calls made
    prior_ticks,      \* translate: what the fetches before the last one reported
    status_resp,      \* translate: answer to the last get_translation_status
    reported,         \* translate: percentages passed to progress_message in this pass of the loop
    token_cache,      \* lru_cache of get_token: <<[cred, token]>>, most recent last
    net_calls,        \* POSTs to AUTH_URL, per credential
    issued,           \* tokens obtained from AUTH_URL, per credential
    last_token,       \* what the last get_token call returned (0: it raised)
    json_error_caught,\* build: response.json() errors are RequestExceptions
    diag,             \* translate: what the extra manifest fetch after "failed" met
    server_manifest,  \* the service's manifest status for the URN being translated
    manifest_at_call, \* server_manifest when translate was last called on its own
    tr_calls,         \* calls of translate made on its own, for one and the same URN
    vw_manifest,      \* get_viewables_from_urn: the manifest the service answered with
    vw_result,        \* get_viewables_from_urn: what the call ended with
    loc_a, loc_b,     \* two storage locations [bucket, object]
    urn_a, urn_b,     \* the URNs derived from them (<<>>: not derived yet)
    cfg_targets,      \* create_json_from_params: params.targets
    cfg_result,       \* create_json_from_params: what it returned
    params,           \* the params of the latest handler call
    stored_from       \* the params of the run that wrote what storage holds

vars == <<pc, result, runs, storage, written, calls, inflight, elapsed,
          probe_fetches, probe_resp, revit_version, activity, last_status,
          max_wait_time,
          elapsed_time, fetches, prior_ticks, status_resp, reported,
          token_cache, net_calls, issued, last_token, json_error_caught,
          diag, server_manifest, manifest_at_call, tr_calls,
          vw_manifest, vw_result, loc_a, loc_b, urn_a, urn_b,
          cfg_targets, cfg_result, params, stored_from>>

probeVars == <<elapsed, probe_fetches, probe_resp>>
gateVars == <<revit_version, activity, last_status>>
translateVars == <<elapsed_time, fetches, prior_ticks, status_resp, reported, diag>>
tokenVars == <<token_cache, net_calls, issued, last_token>>
storeVars == <<storage, written>>
\* State that only the stand-alone specifications below change.
viewVars == <<vw_manifest, vw_result>>
urnVars == <<loc_a, loc_b, urn_a, urn_b>>
cfgVars == <<cfg_targets, cfg_result>>
fileVars == <<params, stored_from>>
otherVars == <<manifest_at_call, tr_calls, viewVars, urnVars, cfgVars>>
auxVars == <<otherVars, fileVars>>

\* ------------------------------------------------------------ pure helpers
Min(a, b) == IF a <= b THEN a ELSE b

RECURSIVE SumOver(_, _)
SumOver(f, S) ==
    IF S = {} THEN 0
    ELSE LET x == CHOOSE y \in S : TRUE IN f[x] + SumOver(f, S \ {x})

\* What a handler hands back: kind is "success", "reused", "file" or the failure;
\* value is the run whose URN or file is returned; supported is the set of
\* versions the failure message lists.
Outcome(op, kind, value, supported) ==
    [op |-> op, kind |-> kind, value |-> value, supported |-> supported]
Failure(op, kind) == Outcome(op, kind, 0, {})
NoOutcome == Outcome("none", "none", 0, {})

\* ------------------------------------------------------------ get_token
CacheHit(cache, cred) == \E i \in 1..Len(cache) : cache[i].cred = cred
CachedToken(cache, cred) ==
    cache[CHOOSE i \in 1..Len(cache) : cache[i].cred = cred].token

\* functools.lru_cache: a hit becomes the most recently used entry.
LruTouch(cache, cred) ==
    LET i == CHOOSE j \in 1..Len(cache) : cache[j].cred = cred
    IN Append(SubSeq(cache, 1, i - 1) \o SubSeq(cache, i + 1, Len(cache)), cache[i])

\* functools.lru_cache: a miss whose call returned is stored; when the cache is
\* full the least recently used entry is dropped first.
LruInsert(cache, entry) ==
    Append(IF Len(cache) >= LruMaxsize THEN Tail(cache) ELSE cache, entry)

\* Fault: the outcome of a failed call is stored like a token.
get_token_CachesFailure(cred, http_ok) ==
    IF CacheHit(token_cache, cred)
    THEN /\ last_token' = CachedToken(token_cache, cred)
         /\ token_cache' = LruTouch(token_cache, cred)
         /\ UNCHANGED <<net_calls, issued>>
    ELSE /\ net_calls' = [net_calls EXCEPT ![cred] = @ + 1]
         /\ IF http_ok
            THEN LET token == SumOver(issued, Credentials) + 1
                 IN /\ issued' = [issued EXCEPT ![cred] = @ + 1]
                    /\ token_cache' =
                           LruInsert(token_cache, [cred |-> cred, token |-> token])
                    /\ last_token' = token
            ELSE /\ last_token' = 0
                 /\ token_cache' = LruInsert(token_cache, [cred |-> cred, token |-> 0])
                 /\ UNCHANGED issued

\* One get_token(cred) call; http_ok: the token endpoint answers 2xx.
get_token(cred, http_ok) ==
    IF CacheHit(token_cache, cred)
    THEN /\ last_token' = CachedToken(token_cache, cred)
         /\ token_cache' = LruTouch(token_cache, cred)
         /\ UNCHANGED <<net_calls, issued>>
    ELSE /\ net_calls' = [net_calls EXCEPT ![cred] = @ + 1]
         /\ IF http_ok
            THEN LET token == SumOver(issued, Credentials) + 1
                 IN /\ issued' = [issued EXCEPT ![cred] = @ + 1]
                    /\ token_cache' =
                           LruInsert(token_cache, [cred |-> cred, token |-> token])
                    /\ last_token' = token
            ELSE \* raise_for_status raises: lru_cache stores nothing
                 /\ last_token' = 0
                 /\ UNCHANGED <<issued, token_cache>>

\* Sequences over S of length 0..n.
RECURSIVE SeqsUpTo(_, _)
SeqsUpTo(S, n) ==
    IF n = 0 THEN {<<>>}
    ELSE LET shorter == SeqsUpTo(S, n - 1)
         IN shorter \cup {Append(q, x) : q \in {r \in shorter : Len(r) = n - 1}, x \in S}

\* ------------------------------------------------------ safe_base64_encode
\* Texts are sequences of bytes (text.encode() of ASCII text), URNs sequences
\* of one-character strings.
\* "urn:adsk.objects:os.object:"
UrnPrefix ==
    <<117, 114, 110, 58, 97, 100, 115, 107, 46, 111, 98, 106, 101, 99, 116, 115, 58,
      111, 115, 46, 111, 98, 106, 101, 99, 116, 58>>
\* "/"
Slash == 47

\* The alphabet of base64.urlsafe_b64encode.
B64Alphabet ==
    <<"A", "B", "C", "D", "E", "F", "G", "H", "I", "J", "K", "L", "M",
      "N", "O", "P", "Q", "R", "S", "T", "U", "V", "W", "X", "Y", "Z",
      "a", "b", "c", "d", "e", "f", "g", "h", "i", "j", "k", "l", "m",
      "n", "o", "p", "q", "r", "s", "t", "u", "v", "w", "x", "y", "z",
      "0", "1", "2", "3", "4", "5", "6", "7", "8", "9", "-", "_">>
B64Char(sextet) == B64Alphabet[sextet + 1]

\* base64.urlsafe_b64encode: three bytes make four characters; a last group of
\* one or two bytes is filled up with "=".
RECURSIVE urlsafe_b64encode(_)
urlsafe_b64encode(bytes) ==
    IF bytes = <<>> THEN <<>>
    ELSE IF Len(bytes) = 1
    THEN LET n == bytes[1] * 65536
         IN <<B64Char(n \div 262144), B64Char((n \div 4096) % 64), "=", "=">>
    ELSE IF Len(bytes) = 2
    THEN LET n == bytes[1] * 65536 + bytes[2] * 256
         IN <<B64Char(n \div 262144), B64Char((n \div 4096) % 64),
              B64Char((n \div 64) % 64), "=">>
    ELSE LET n == bytes[1] * 65536 + bytes[2] * 256 + bytes[3]
         IN <<B64Char(n \div 262144), B64Char((n \div 4096) % 64),
              B64Char((n \div 64) % 64), B64Char(n % 64)>>
                \o urlsafe_b64encode(SubSeq(bytes, 4, Len(bytes)))

\* Fault: the padding is left in place.
StripPadding_Kept(chars) == chars

\* str.strip("="): the "=" at both ends are removed.
RECURSIVE StripPadding(_)
StripPadding(chars) ==
    IF chars = <<>> THEN chars
    ELSE IF Head(chars) = "=" THEN StripPadding(Tail(chars))
    ELSE IF chars[Len(chars)] = "=" THEN StripPadding(SubSeq(chars, 1, Len(chars) - 1))
    ELSE chars

safe_base64_encode(text) == StripPadding(urlsafe_b64encode(text))

\* oss_object_id = f"urn:adsk.objects:os.object:{bucket_key}/{object_key}"
\* object_urn = safe_base64_encode(oss_object_id)
derive(bucket_key, object_key) ==
    safe_base64_encode(UrnPrefix \o bucket_key \o <<Slash>> \o object_key)

\* Bucket keys are made of [-_.a-z0-9] (here "a", "b"), object keys may hold
\* "/" and "~" too.
BucketKeys == {<<97>>, <<98>>, <<97, 97>>, <<97, 98>>}
ObjectKeys == SeqsUpTo({97, Slash, 126}, MaxKeyLen) \ {<<>>}
Locations == [bucket : BucketKeys, object : ObjectKeys]

\* ------------------------------------------------- get_viewables_from_urn
\* A JSON value found where a list is expected: the key is missing
\* ("absent"), a list, null, or a string (here a non-empty one).
JAbsent == [kind |-> "absent", items |-> <<>>]
JNull == [kind |-> "null", items |-> <<>>]
JString == [kind |-> "str", items |-> <<>>]
JList(items) == [kind |-> "list", items |-> items]

\* Nodes at the second level of a manifest tree.
InnerNodes ==
    [role : {"2d", "meta"}, guid : {"g1", "g3"}, children : {JAbsent}]
\* Nodes at the first level: with or without role and guid, their "children"
\* missing, a list, or something that is not a list.
PlainNodes ==
    [role : {"3d", "meta"}, guid : {"g1", "g2"},
     children : {JAbsent, JNull, JList(<<[role |-> "2d", guid |-> "g3", children |-> JAbsent]>>)}]
OddNodes ==
    [role : {"3d", "2d", "meta", Absent}, guid : {"g1", "", Absent},
     children : {JAbsent, JNull, JString, JList(<<>>)}
                    \cup {JList(q) : q \in SeqsUpTo(InnerNodes, 2) \ {<<>>}}]
ChildrenLists ==
    SeqsUpTo(PlainNodes, MaxChildren) \cup {<<n>> : n \in OddNodes}
Derivatives ==
    [children : {JAbsent, JNull} \cup {JList(q) : q \in ChildrenLists}]
LeadingDerivatives ==
    [children : {JAbsent,
                 JList(<<[role |-> "3d", guid |-> "g1", children |-> JAbsent]>>)}]
Manifests ==
    [derivatives : {JAbsent, JList(<<>>)}
                      \cup {JList(<<d>>) : d \in Derivatives}
                      \cup {JList(<<d0, d>>) : d0 \in LeadingDerivatives, d \in Derivatives}]

\* What get_viewables_from_urn ends with: the list it returns, or the
\* exception that leaves it.
NotCalled == [called |-> FALSE, raised |-> FALSE, viewables |-> <<>>]

\* dict.get(key, default) for the keys role and guid.
Get(value, default) == IF value = Absent THEN default ELSE value

\* Fault: only 3D views are taken for viewables.
IsViewable_Only3d(role, guid) == role = "3d" /\ guid # ""

\* if role in ["3d", "2d"] and guid
IsViewable(role, guid) == role \in {"3d", "2d"} /\ guid # ""

\* extract_viewables(children): out is the viewables list so far, with raised
\* set once an exception has left the loop.
RECURSIVE extract_viewables(_, _)
extract_viewables(children, out) ==
    IF out.raised THEN out
    ELSE IF children.kind \in {"null", "str"}
    THEN \* for child in None: TypeError; "x".get: AttributeError
         [out EXCEPT !.raised = TRUE]
    ELSE IF children.items = <<>> THEN out
    ELSE LET child == Head(children.items)
             role == Get(child.role, "")
             guid == Get(child.guid, "")
             name == "Unnamed View"
             appended ==
                 IF IsViewable(role, guid)
                 THEN [out EXCEPT !.viewables =
                          Append(@, [guid |-> guid, name |-> name, role |-> role])]
                 ELSE out
             nested ==
                 IF child.children.kind # "absent"
                 THEN extract_viewables(child.children, appended)
                 ELSE appended
         IN extract_viewables(JList(Tail(children.items)), nested)

\* for derivative in derivatives: extract_viewables(derivative.get("children", []))
RECURSIVE ProcessDerivatives(_, _)
ProcessDerivatives(derivatives, out) ==
    IF derivatives = <<>> \/ out.raised THEN out
    ELSE LET children == Head(derivatives).children
         IN ProcessDerivatives(
                Tail(derivatives),
                extract_viewables(IF children.kind = "absent" THEN JList(<<>>) ELSE children,
                                  out))

\* The part of get_viewables_from_urn that follows response.json().
get_viewables(manifest) ==
    LET derivatives == IF manifest.derivatives.kind = "absent"
                       THEN <<>> ELSE manifest.derivatives.items
        out == ProcessDerivatives(derivatives,
                                  [called |-> TRUE, raised |-> FALSE, viewables |-> <<>>])
    IN IF out.raised THEN [out EXCEPT !.viewables = <<>>] ELSE out

\* ------------------------------------------------ create_json_from_params
\* Rows of the targets table.
TargetRows ==
    [parameter_name : {"Carbon_Rating", "Fire_Rating"},
     parameter_group : {"PG_TEXT", "PG_DATA"},
     type_name : {"400x400mm", "500x500mm"},
     family_name : {"CO_01_001"},
     value : {"95"}]
TargetTables == SeqsUpTo(TargetRows, MaxRows)

\* create_json_from_params has not returned: a value that is no list.
NotBuilt == <<[ParameterName |-> "", ParameterGroup |-> "", Targets |-> <<>>, built |-> FALSE]>>

\* Fault: the rows are grouped by the parameter name alone.
GroupKey_NameOnly(row) == <<row.parameter_name, "PG_TEXT">>

\* key = (row["parameter_name"], row["parameter_group"])
GroupKey(row) == <<row.parameter_name, row.parameter_group>>

\* The dictionary appended to grouped[key].
TargetOf(row) ==
    [TypeName |-> row.type_name, FamilyName |-> row.family_name, Value |-> row.value]

\* The loop over params.targets.  grouped is the defaultdict as the sequence
\* of its items: a dict keeps its keys in the order of their insertion.
RECURSIVE GroupRows(_, _)
GroupRows(rows, grouped) ==
    IF rows = <<>> THEN grouped
    ELSE LET row == Head(rows)
             key == GroupKey(row)
             known == {i \in 1..Len(grouped) : grouped[i].key = key}
         IN GroupRows(
                Tail(rows),
                IF known = {}
                THEN Append(grouped, [key |-> key, targets |-> <<TargetOf(row)>>])
                ELSE LET i == CHOOSE j \in known : TRUE
                     IN [grouped EXCEPT ![i].targets = Append(@, TargetOf(row))])

create_json_from_params(targets) ==
    LET grouped == GroupRows(targets, <<>>)
    IN [i \in 1..Len(grouped) |->
           [ParameterName |-> grouped[i].key[1],
            ParameterGroup |-> grouped[i].key[2],
            Targets |-> grouped[i].targets]]

\* ------------------------------------------------------- handler params
\* params.cad_file (None: no file uploaded) and params.targets, the table by
\* name: the handlers' storage logic never reads the table.
DefaultTargets == "default_table"
NoParams == [cad_file |-> None, targets |-> DefaultTargets]
\* One file and the default table.
ParamsOneFile == [cad_file : {None, "a.rvt"}, targets : {DefaultTargets}]
\* Two files and two tables.
ParamsTwoFiles == [cad_file : {None, "a.rvt", "b.rvt"}, targets : {DefaultTargets, "other_table"}]

\* ------------------------------------------------------------ Init
InitWith(budget) ==
    /\ pc = "idle"
    /\ result = NoOutcome
    /\ runs = 0
    /\ storage = [k \in StorageKeys |-> 0]
    /\ written = {}
    /\ params = NoParams
    /\ stored_from = NoParams
    /\ calls = <<>>
    /\ inflight = {}
    /\ elapsed = 0
    /\ probe_fetches = 0
    /\ probe_resp = NoResponse
    /\ revit_version = None
    /\ activity = None
    /\ last_status = None
    /\ max_wait_time = budget
    /\ elapsed_time = 0
    /\ fetches = 0
    /\ prior_ticks = "none"
    /\ status_resp = NoResponse
    /\ reported = <<>>
    /\ token_cache = <<>>
    /\ net_calls = [c \in Credentials |-> 0]
    /\ issued = [c \in Credentials |-> 0]
    /\ last_token = 0
    /\ json_error_caught \in BOOLEAN
    /\ diag = "not_run"
    /\ server_manifest = "none"
    /\ manifest_at_call = "none"
    /\ tr_calls = 0

\* get_viewables_from_urn has not been called.
InitNoView ==
    /\ vw_manifest = [derivatives |-> JAbsent]
    /\ vw_result = NotCalled

\* No URN has been derived on its own.
InitNoUrn ==
    /\ loc_a = [bucket |-> <<>>, object |-> <<>>]
    /\ loc_b = [bucket |-> <<>>, object |-> <<>>]
    /\ urn_a = <<>>
    /\ urn_b = <<>>

\* create_json_from_params has not been called on its own.
InitNoConfig ==
    /\ cfg_targets = <<>>
    /\ cfg_result = NotBuilt

\* The program as written: max_wait_time = 300.
Init == InitWith(MaxWaitTime) /\ InitNoView /\ InitNoUrn /\ InitNoConfig

\* ------------------------------------------------------------ storage
\* storage.delete raises FileNotFoundError for a missing key, which is
\* swallowed; any other error of the storage service leaves the method.
DeleteOutcomes == {"ok", "file_delete_error", "urn_delete_error"}

\* Fault: only the URN is deleted.
clear_da_storage_UrnOnly(st, outcome) ==
    IF outcome = "ok" THEN [st EXCEPT ![STORED_OUTPUT_URN_KEY] = 0] ELSE st

\* The keys are deleted in the order (file, URN); the first failing delete
\* ends the loop.
clear_da_storage(st, outcome) ==
    CASE outcome = "ok" -> [k \in StorageKeys |-> 0]
      [] outcome = "file_delete_error" -> st
      [] outcome = "urn_delete_error" -> [st EXCEPT ![STORED_OUTPUT_FILE_KEY] = 0]

\* What is remembered about the origin of the stored result.
OriginAfter(st, origin) == IF st = [k \in StorageKeys |-> 0] THEN NoParams ELSE origin

\* Fault: a stored URN is not looked for.
HasStoredUrn_Never(st) == FALSE

\* stored_urn_file = storage.get(STORED_OUTPUT_URN_KEY, scope="entity") is
\* there (no FileNotFoundError) and truthy.
HasStoredUrn(st) == st[STORED_OUTPUT_URN_KEY] # 0

\* Fault: the download looks for the URN key.
HasStoredFile_Urn(st) == st[STORED_OUTPUT_URN_KEY] # 0

\* STORED_OUTPUT_FILE_KEY in storage.list(scope="entity")
HasStoredFile(st) == st[STORED_OUTPUT_FILE_KEY] # 0

\* A handler ends: back to "idle" with its outcome.
Return(outcome) ==
    /\ pc' = "idle"
    /\ result' = outcome

\* ----------------------------------------------- process_with_workitem
\* Entry: no file, the stored URN, the credentials check.
\* A handler is entered: the locals of the handler that ran before it, and
\* what was noted of its remote calls, are gone.
NewCall ==
    /\ calls' = <<>>
    /\ inflight' = {}
    /\ written' = {}
    /\ elapsed' = 0
    /\ probe_fetches' = 0
    /\ probe_resp' = NoResponse
    /\ revit_version' = None
    /\ activity' = None
    /\ last_status' = None
    /\ elapsed_time' = 0
    /\ fetches' = 0
    /\ prior_ticks' = "none"
    /\ status_resp' = NoResponse
    /\ reported' = <<>>
    /\ diag' = "not_run"
    \* a run's bucket_key is a new uuid4: no manifest exists for its objects
    /\ server_manifest' = "none"

\* Which of the inputs the path taken by process_with_workitem reads: the
\* others are fixed, so that each outcome of a call is one step.
ReadsInputs(p, creds_set, view_ok, deleted) ==
    IF p.cad_file = None THEN creds_set /\ view_ok
    ELSE /\ deleted = "ok"
         /\ IF HasStoredUrn(storage) THEN creds_set ELSE view_ok

PWI_Start(p, creds_set, view_ok, deleted) ==
    /\ pc = "idle"
    /\ ReadsInputs(p, creds_set, view_ok, deleted)
    /\ params' = p
    /\ NewCall
    /\ UNCHANGED <<runs, max_wait_time, tokenVars, json_error_caught, otherVars>>
    /\ IF p.cad_file = None
       THEN /\ storage' = clear_da_storage(storage, deleted)
            /\ Return(IF deleted = "ok"
                      THEN Failure("process", "UserError: upload a file first")
                      ELSE Failure("process", "StorageError"))
       ELSE IF HasStoredUrn(storage)
       THEN /\ UNCHANGED storage
            /\ Return(IF view_ok
                      THEN Outcome("process", "reused", storage[STORED_OUTPUT_URN_KEY], {})
                      ELSE Failure("process", "ViewError"))
       ELSE IF ~creds_set
       THEN /\ UNCHANGED storage
            /\ Return(Failure("process", "UserError: credentials"))
       ELSE /\ runs < MaxRuns
            /\ UNCHANGED storage
            /\ result' = NoOutcome
            /\ pc' = "upload"
    /\ stored_from' = OriginAfter(storage', stored_from)

\* Steps 2-4: token, nickname, fresh bucket, upload of input.rvt.
PWI_Upload(outcome) ==
    /\ pc = "upload"
    /\ CASE outcome = "auth_error" ->
              /\ Return(Failure("process", "AuthError"))
              /\ UNCHANGED runs
         [] outcome = "upload_error" ->
              /\ runs' = runs + 1
              /\ Return(Failure("process", "UploadFailed"))
         [] outcome = "ok" ->
              /\ runs' = runs + 1
              /\ pc' = "probe_submit"
              /\ UNCHANGED result
    /\ UNCHANGED <<calls, inflight, storeVars, probeVars, gateVars, max_wait_time,
                   translateVars, tokenVars, json_error_caught, server_manifest, auxVars>>

\* ------------------------------------ get_revit_version_from_oss_object
\* Fault: DEFAULT_REVIT_VERSION stands in for a version the manifest lacks.
get_revit_version_from_manifest_Default(manifest) ==
    IF manifest.version \in {Absent, ""} THEN DEFAULT_REVIT_VERSION ELSE manifest.version

\* Fault: the version is read only from a manifest whose status is "success".
get_revit_version_from_manifest_WhenSuccess(manifest) ==
    IF manifest.status # "success" \/ manifest.version \in {Absent, ""}
    THEN None ELSE manifest.version

\* The first truthy RVTVersion of the manifest's derivatives, or None.
get_revit_version_from_manifest(manifest) ==
    IF manifest.version \in {Absent, ""} THEN None ELSE manifest.version

\* fetch_manifest: raise_for_status raises on 4xx/5xx, the transport raises when
\* there is no answer, response.json() raises on the empty body of a 202.
FetchRaisesRequestException(resp) == resp.code \in {0, 500}
FetchRaisesJsonError(resp) == resp.code = 202

\* The job behind a manifest is over once its status is success or failed.
SeenTerminal(resp) == resp.code = 200 /\ resp.status \in {"success", "failed"}

\* Fault: the probe loop never breaks on the manifest's status.
ProbeBreaks_Never(manifest) == FALSE

\* if manifest.get("status") in ["success", "failed"]: break
ProbeBreaks(manifest) == manifest.status \in {"success", "failed"}

\* get_revit_version_from_oss_object returns v to the controller.
ProbeReturn(v) ==
    /\ revit_version' = v
    /\ calls' = Append(calls, "detect_return")
    /\ pc' = "gate"

\* Fault: a failure of the probe's start_svf_translation_job escapes the
\* detector and ends the handler.
Probe_Submit_Raises(job_ok) ==
    /\ pc = "probe_submit"
    /\ IF job_ok
       THEN /\ inflight' = inflight \cup {"probe_job"}
            /\ calls' = Append(calls, "detect_call")
            /\ pc' = "probe_poll"
            /\ UNCHANGED <<revit_version, result>>
       ELSE /\ calls' = Append(calls, "detect_call")
            /\ Return(Failure("process", "ProbeError"))
            /\ UNCHANGED <<inflight, revit_version>>
    /\ UNCHANGED <<runs, storeVars, probeVars, activity, last_status,
                   max_wait_time, translateVars, tokenVars, json_error_caught, server_manifest, auxVars>>

\* Step 4.5 call, and the probe's start_svf_translation_job.
Probe_Submit(job_ok) ==
    /\ pc = "probe_submit"
    /\ IF job_ok
       THEN /\ inflight' = inflight \cup {"probe_job"}
            /\ calls' = Append(calls, "detect_call")
            /\ pc' = "probe_poll"
            /\ UNCHANGED revit_version
       ELSE \* except Exception: return None
            /\ revit_version' = None
            /\ calls' = calls \o <<"detect_call", "detect_return">>
            /\ pc' = "gate"
            /\ UNCHANGED inflight
    /\ UNCHANGED <<result, runs, storeVars, probeVars, activity, last_status,
                   max_wait_time, translateVars, tokenVars, json_error_caught, server_manifest, auxVars>>

\* One pass of the probe loop's body up to the sleep.
Probe_Tick(resp) ==
    /\ pc = "probe_poll"
    /\ elapsed < max_wait
    /\ probe_fetches' = probe_fetches + 1
    /\ probe_resp' = resp
    /\ inflight' = IF SeenTerminal(resp) THEN inflight \ {"probe_job"} ELSE inflight
    /\ IF FetchRaisesRequestException(resp)
          \/ (FetchRaisesJsonError(resp) /\ json_error_caught)
       THEN \* except requests.exceptions.RequestException: pass
            /\ pc' = "probe_sleep"
            /\ UNCHANGED <<revit_version, calls>>
       ELSE IF FetchRaisesJsonError(resp)
       THEN \* except Exception: return None
            ProbeReturn(None)
       ELSE LET version == get_revit_version_from_manifest(resp)
            IN IF version # None
               THEN ProbeReturn(version)
               ELSE IF ProbeBreaks(resp)
               THEN \* break, then return None
                    ProbeReturn(None)
               ELSE /\ pc' = "probe_sleep"
                    /\ UNCHANGED <<revit_version, calls>>
    /\ UNCHANGED <<result, runs, storeVars, elapsed, activity, last_status,
                   max_wait_time, translateVars, tokenVars, json_error_caught, server_manifest, auxVars>>

\* time.sleep(interval); elapsed += interval
Probe_Sleep ==
    /\ pc = "probe_sleep"
    /\ elapsed' = elapsed + interval
    /\ pc' = "probe_poll"
    /\ UNCHANGED <<result, runs, calls, inflight, storeVars, probe_fetches, probe_resp,
                   gateVars, max_wait_time, translateVars, tokenVars, json_error_caught, server_manifest, auxVars>>

\* The while condition fails: return None.
Probe_Exhausted ==
    /\ pc = "probe_poll"
    /\ ~(elapsed < max_wait)
    /\ ProbeReturn(None)
    /\ UNCHANGED <<result, runs, inflight, storeVars, probeVars, activity,
                   last_status, max_wait_time, translateVars, tokenVars,
                   json_error_caught, server_manifest, auxVars>>

\* ----------------------------------------------- process_with_workitem
\* Fault: an undetected or unmapped version falls back to DEFAULT_REVIT_VERSION.
PWI_Gate_Default ==
    /\ pc = "gate"
    /\ activity' = IF revit_version \in DOMAIN REVIT_VERSION_CONFIG
                   THEN REVIT_VERSION_CONFIG[revit_version].activity_name
                   ELSE REVIT_VERSION_CONFIG[DEFAULT_REVIT_VERSION].activity_name
    /\ pc' = "wi_submit"
    /\ elapsed' = 0
    /\ probe_fetches' = 0
    /\ probe_resp' = NoResponse
    /\ UNCHANGED <<result, runs, calls, inflight, storeVars, revit_version, last_status,
                   max_wait_time, translateVars, tokenVars, json_error_caught, server_manifest, auxVars>>

\* The checks on the detected version and the choice of the activity.  Past
\* the checks the probe's locals are dead; they are kept when the handler ends here.
PWI_Gate ==
    /\ pc = "gate"
    /\ IF revit_version = None
       THEN /\ Return(Failure("process", "DetectionFailed"))
            /\ UNCHANGED <<activity, probeVars>>
       ELSE IF revit_version \notin DOMAIN REVIT_VERSION_CONFIG
       THEN /\ Return(Outcome("process", "UnsupportedVersion", 0,
                              DOMAIN REVIT_VERSION_CONFIG))
            /\ UNCHANGED <<activity, probeVars>>
       ELSE /\ activity' = REVIT_VERSION_CONFIG[revit_version].activity_name
            /\ pc' = "wi_submit"
            /\ elapsed' = 0
            /\ probe_fetches' = 0
            /\ probe_resp' = NoResponse
            /\ UNCHANGED result
    /\ UNCHANGED <<runs, calls, inflight, storeVars, revit_version, last_status,
                   max_wait_time, translateVars, tokenVars, json_error_caught, server_manifest, auxVars>>

\* Fault: the work item is submitted and not waited for.
PWI_WorkItemSubmit_NoWait ==
    /\ pc = "wi_submit"
    /\ calls' = Append(calls, "execute_call")
    /\ inflight' = inflight \cup {"work_item"}
    /\ pc' = "tr_submit"
    /\ UNCHANGED <<result, runs, storeVars, probeVars, gateVars, max_wait_time,
                   translateVars, tokenVars, json_error_caught, server_manifest, auxVars>>

\* Steps 5-7: the parameters, the work item, work_item.execute is entered.
PWI_WorkItemSubmit ==
    /\ pc = "wi_submit"
    /\ calls' = Append(calls, "execute_call")
    /\ inflight' = inflight \cup {"work_item"}
    /\ pc' = "wi_wait"
    /\ UNCHANGED <<result, runs, storeVars, probeVars, gateVars, max_wait_time,
                   translateVars, tokenVars, json_error_caught, server_manifest, auxVars>>

\* Fault: execute returns while the work item is still running.
AfterExecute_StillRunning(jobs) == jobs

\* work_item.execute(token, max_wait=600, interval=10) blocks until the work
\* item is over: on its return the work item is no longer in flight.
AfterExecute(jobs) == jobs \ {"work_item"}

\* Fault: the final status is not looked at.
PWI_WorkItemReturn_IgnoreStatus(raised, st) ==
    /\ pc = "wi_wait"
    /\ inflight' = inflight \ {"work_item"}
    /\ IF raised
       THEN /\ Return(Failure("process", "JobError"))
            /\ UNCHANGED <<calls, last_status>>
       ELSE /\ calls' = Append(calls, "execute_return")
            /\ last_status' = st
            /\ pc' = "tr_submit"
            /\ UNCHANGED result
    /\ UNCHANGED <<runs, storeVars, probeVars, revit_version, activity, max_wait_time,
                   translateVars, tokenVars, json_error_caught, server_manifest, auxVars>>

\* work_item.execute returns the final status, or raises.
PWI_WorkItemReturn(raised, st) ==
    /\ pc = "wi_wait"
    /\ inflight' = AfterExecute(inflight)
    /\ IF raised
       THEN /\ Return(Failure("process", "JobError"))
            /\ UNCHANGED <<calls, last_status>>
       ELSE /\ calls' = Append(calls, "execute_return")
            /\ last_status' = st
            /\ IF st # "success"
               THEN Return(Failure("process", "JobFailed"))
               ELSE /\ pc' = "tr_submit"
                    /\ UNCHANGED result
    /\ UNCHANGED <<runs, storeVars, probeVars, revit_version, activity, max_wait_time,
                   translateVars, tokenVars, json_error_caught, server_manifest, auxVars>>

\* ------------------------------------- translate_da_result_for_viewing
\* The phase of process_with_workitem a translate failure is raised from.
TranslateRaise(kind) == Return(Failure("process", kind))

\* Fault: no check for 202: raise_for_status passes and the empty body fails
\* to parse.
get_translation_status_No202Check(resp) ==
    IF resp.code # 200 THEN "RequestException"
    ELSE IF resp.status = Absent THEN "unknown"
    ELSE resp.status

\* get_translation_status: the status it returns, or "RequestException".
get_translation_status(resp) ==
    IF resp.code = 202 THEN "inprogress"
    ELSE IF resp.code # 200 THEN "RequestException"
    ELSE IF resp.status = Absent THEN "unknown"
    ELSE resp.status

\* What the fetches made so far reported, the last one (resp) now included:
\* "none" (there were none), "inprogress" (each of them), "error" (each of
\* them raised a RequestException), "mixed" (otherwise).
TicksSummary(prior, resp) ==
    IF resp = NoResponse THEN "none"
    ELSE IF prior \in {"none", "inprogress"} /\ get_translation_status(resp) = "inprogress"
    THEN "inprogress"
    ELSE IF prior \in {"none", "error"} /\ get_translation_status(resp) = "RequestException"
    THEN "error"
    ELSE "mixed"

\* What the extra GET .../manifest made after "failed" can meet.
DiagnosticOutcomes ==
    {"transport_error",       \* no answer: requests.get raises
     "non200",                \* any status code but 200: the body is not read
     "bad_json",              \* 200 whose body is not JSON
     "empty_derivatives",     \* 200 with "derivatives": []
     "malformed_derivatives", \* 200 with "derivatives": null
     "no_messages",           \* 200 without derivatives or without messages
     "messages"}              \* 200 with derivatives[0].messages

\* The exception raised inside the inner try block, "none" when there is none.
DiagnosticFetchRaises(d) ==
    CASE d = "transport_error" -> "RequestException"
      [] d = "bad_json" -> "JSONDecodeError"
      [] d = "empty_derivatives" -> "IndexError"
      [] d = "malformed_derivatives" -> "TypeError"
      [] OTHER -> "none"

\* Fault: the extra fetch is made outside any try block of its own.
InnerExcept_Missing(exc) == exc

\* except Exception as e: every error of the extra fetch ends here; what gets
\* past the handler is nothing.
InnerExcept(exc) == "none"

\* Fault: the loop's try block has no handler for RequestException.
OuterExceptCatches_Nothing(exc) == FALSE

\* except requests.exceptions.RequestException as e
OuterExceptCatches(exc) ==
    \/ exc = "RequestException"
    \/ exc = "JSONDecodeError" /\ json_error_caught

\* POST .../designdata/job with "x-ads-force": "true": the service translates
\* the object again, whatever derivatives it already holds.
ForcedJob(manifest) == "pending"

\* Fault: the manifest status "timeout" is taken for a failure too.
IsFailedStatus_OrTimeout(status) == status \in {"failed", "timeout"}

\* elif status == "failed"
IsFailedStatus(status) == status = "failed"

\* Fault: the loop condition lets one more pass through (<= for <).
PollCondition_Inclusive(e, mw) == e <= mw

\* Fault: the loop condition gives up one pass early.
PollCondition_OneShort(e, mw) == e + poll_interval < mw

\* while elapsed_time < max_wait_time
PollCondition(e, mw) == e < mw

\* Fault: the percentage is computed from the elapsed time after the sleep.
ProgressPct_NextTick(e, mw) == Min(((e + poll_interval) * 100) \div mw, 99)

\* progress_pct = min((elapsed_time / max_wait_time) * 100, 99)
ProgressPct(e, mw) == Min((e * 100) \div mw, 99)

\* Step 8 call: get_token, start_svf_translation_job, the loop's variables.
Translate_Submit(token_ok, job_ok) ==
    /\ pc = "tr_submit"
    /\ calls' = Append(calls, "translate_call")
    /\ get_token(EnvCredential, token_ok)
    /\ IF last_token' = 0
       THEN /\ TranslateRaise("AuthError")
            /\ UNCHANGED inflight
       ELSE IF ~job_ok
       THEN /\ TranslateRaise("TranslationSubmitFailed")
            /\ UNCHANGED inflight
       ELSE /\ inflight' = inflight \cup {"output_job"}
            /\ pc' = "tr_poll"
            /\ UNCHANGED result
    /\ server_manifest' = IF last_token' # 0 /\ job_ok
                          THEN ForcedJob(server_manifest)
                          ELSE server_manifest
    /\ elapsed_time' = 0
    /\ UNCHANGED <<runs, storeVars, probeVars, gateVars, max_wait_time, fetches,
                   prior_ticks, status_resp, reported, diag, json_error_caught,
                   auxVars>>

\* One pass of the poll loop's body up to the sleep.  d is what the extra
\* manifest fetch meets; that fetch is made only when the status is "failed".
Translate_Tick(resp, d) ==
    /\ pc = "tr_poll"
    /\ PollCondition(elapsed_time, max_wait_time)
    /\ fetches' = fetches + 1
    /\ status_resp' = resp
    /\ LET status == get_translation_status(resp)
           progress_pct == ProgressPct(elapsed_time, max_wait_time)
           failed == status # "RequestException" /\ IsFailedStatus(status)
           \* the exception the body of the loop's try block ends with
           raised ==
               IF status = "RequestException" THEN "RequestException"
               ELSE IF failed
               THEN LET escaped == InnerExcept(DiagnosticFetchRaises(d))
                    IN IF escaped = "none" THEN "TranslationFailed" ELSE escaped
               ELSE "none"
       IN /\ d = "not_run" <=> ~failed
          /\ diag' = IF failed THEN d ELSE diag
          /\ prior_ticks' = TicksSummary(prior_ticks, status_resp)
          /\ inflight' = IF SeenTerminal(resp) THEN inflight \ {"output_job"}
                         ELSE inflight
          /\ reported' = IF status = "RequestException" THEN <<>>
                         ELSE IF status = "success" THEN <<progress_pct, 100>>
                         ELSE <<progress_pct>>
          /\ IF status = "success"
             THEN /\ calls' = Append(calls, "translate_return")
                  /\ pc' = "store"
                  /\ UNCHANGED result
             ELSE IF raised = "none" \/ OuterExceptCatches(raised)
             THEN /\ pc' = "tr_sleep"
                  /\ UNCHANGED <<result, calls>>
             ELSE /\ TranslateRaise(IF raised = "TranslationFailed"
                                    THEN "TranslationFailed" ELSE "UnexpectedError")
                  /\ UNCHANGED calls
    /\ UNCHANGED <<runs, storeVars, probeVars, gateVars, max_wait_time, elapsed_time,
                   tokenVars, json_error_caught, server_manifest, auxVars>>

\* time.sleep(poll_interval); elapsed_time += poll_interval
Translate_Sleep ==
    /\ pc = "tr_sleep"
    /\ elapsed_time' = elapsed_time + poll_interval
    /\ reported' = <<>>
    /\ pc' = "tr_poll"
    /\ UNCHANGED <<result, runs, calls, inflight, storeVars, probeVars, gateVars,
                   max_wait_time, fetches, prior_ticks, status_resp, diag,
                   tokenVars, json_error_caught, server_manifest, auxVars>>

\* The while condition fails: raise Exception("Translation timeout ...").
Translate_Timeout ==
    /\ pc = "tr_poll"
    /\ ~PollCondition(elapsed_time, max_wait_time)
    /\ TranslateRaise("Timeout")
    /\ UNCHANGED <<runs, calls, inflight, storeVars, probeVars, gateVars,
                   max_wait_time, translateVars, tokenVars, json_error_caught, server_manifest, auxVars>>

\* ----------------------------------------------- process_with_workitem
\* Steps 9-10: download the output, set the file, set the URN, build the view.
PWI_Store(outcome) ==
    /\ pc = "store"
    /\ CASE outcome = "download_error" ->
              /\ Return(Failure("process", "DownloadFailed"))
              /\ UNCHANGED storeVars
         [] outcome = "file_set_error" ->
              /\ Return(Failure("process", "StoreFailed"))
              /\ UNCHANGED storeVars
         [] outcome = "urn_set_error" ->
              /\ storage' = [storage EXCEPT ![STORED_OUTPUT_FILE_KEY] = runs]
              /\ written' = written \cup {STORED_OUTPUT_FILE_KEY}
              /\ Return(Failure("process", "StoreFailed"))
         [] outcome \in {"view_error", "ok"} ->
              /\ storage' = [storage EXCEPT ![STORED_OUTPUT_FILE_KEY] = runs,
                                            ![STORED_OUTPUT_URN_KEY] = runs]
              /\ written' = written \cup StorageKeys
              /\ Return(IF outcome = "ok"
                        THEN Outcome("process", "success", runs, {})
                        ELSE Failure("process", "ViewError"))
    /\ stored_from' = IF storage' # storage THEN params ELSE stored_from
    /\ UNCHANGED <<runs, calls, inflight, probeVars, gateVars, max_wait_time,
                   translateVars, tokenVars, json_error_caught, server_manifest,
                   otherVars, params>>

StoreOutcomes == {"download_error", "file_set_error", "urn_set_error", "view_error", "ok"}
UploadOutcomes == {"auth_error", "upload_error", "ok"}

\* ----------------------------------------------- download_updated_model
download_updated_model(p, deleted) ==
    /\ pc = "idle"
    /\ p.cad_file # None => deleted = "ok"
    /\ params' = p
    /\ IF p.cad_file = None
       THEN /\ storage' = clear_da_storage(storage, deleted)
            /\ Return(IF deleted = "ok"
                      THEN Failure("download", "UserError: upload a file first")
                      ELSE Failure("download", "StorageError"))
       ELSE IF ~HasStoredFile(storage)
       THEN /\ UNCHANGED storage
            /\ Return(Failure("download", "UserError: no updated model"))
       ELSE /\ UNCHANGED storage
            /\ Return(Outcome("download", "file", storage[STORED_OUTPUT_FILE_KEY], {}))
    /\ stored_from' = OriginAfter(storage', stored_from)
    /\ NewCall
    /\ UNCHANGED <<runs, max_wait_time, tokenVars, json_error_caught, otherVars>>

\* ------------------------------------------------------------ specification
Next ==
    \/ \E p \in ParamsOneFile, c \in BOOLEAN, v \in BOOLEAN, d \in DeleteOutcomes :
           PWI_Start(p, c, v, d)
    \/ \E o \in UploadOutcomes : PWI_Upload(o)
    \/ \E ok \in BOOLEAN : Probe_Submit(ok)
    \/ \E r \in ManifestResponses : Probe_Tick(r)
    \/ Probe_Sleep
    \/ Probe_Exhausted
    \/ PWI_Gate
    \/ PWI_WorkItemSubmit
    \/ \E raised \in BOOLEAN, st \in WorkItemStatuses : PWI_WorkItemReturn(raised, st)
    \/ \E t \in BOOLEAN, j \in BOOLEAN : Translate_Submit(t, j)
    \/ \E r \in StatusResponses, d \in DiagnosticOutcomes \cup {"not_run"} :
           Translate_Tick(r, d)
    \/ Translate_Sleep
    \/ Translate_Timeout
    \/ \E o \in StoreOutcomes : PWI_Store(o)
    \/ \E p \in ParamsOneFile, d \in DeleteOutcomes : download_updated_model(p, d)

Spec == Init /\ [][Next]_vars

\* The poll loop's steps are blocking calls that end: requests.get has
\* timeout=30 and time.sleep(poll_interval) returns.
TranslateLoopStep ==
    \/ \E r \in StatusResponses, d \in DiagnosticOutcomes \cup {"not_run"} :
           Translate_Tick(r, d)
    \/ Translate_Sleep
    \/ Translate_Timeout

FairSpec == Spec /\ WF_vars(TranslateLoopStep)

\* The same program with the loop's budget set to five poll intervals.
InitFive == InitWith(5 * poll_interval) /\ InitNoView /\ InitNoUrn /\ InitNoConfig
SpecFive == InitFive /\ [][Next]_vars

\* The handlers called with either of two files and either of two tables,
\* every storage and view outcome, and a service that answers each remote
\* call at once and without error.
NextFiles ==
    \/ \E p \in ParamsTwoFiles, v \in BOOLEAN, d \in DeleteOutcomes :
           PWI_Start(p, TRUE, v, d)
    \/ PWI_Upload("ok")
    \/ Probe_Submit(TRUE)
    \/ Probe_Tick([code |-> 200, status |-> "success", version |-> "2024"])
    \/ PWI_Gate
    \/ PWI_WorkItemSubmit
    \/ PWI_WorkItemReturn(FALSE, "success")
    \/ Translate_Submit(TRUE, TRUE)
    \/ Translate_Tick([code |-> 200, status |-> "success", version |-> Absent], "not_run")
    \/ \E o \in StoreOutcomes : PWI_Store(o)
    \/ \E p \in ParamsTwoFiles, d \in DeleteOutcomes : download_updated_model(p, d)

SpecFiles == Init /\ [][NextFiles]_vars

\* get_token alone, called with any credential in any order.
TokenCall(cred, http_ok) ==
    /\ CacheHit(token_cache, cred) \/ SumOver(net_calls, Credentials) < MaxCalls
    /\ get_token(cred, http_ok)
    /\ UNCHANGED <<pc, result, runs, calls, inflight, storeVars, probeVars, gateVars,
                   max_wait_time, translateVars, json_error_caught, server_manifest, auxVars>>

NextToken == \E c \in Credentials, ok \in BOOLEAN : TokenCall(c, ok)
SpecToken == Init /\ [][NextToken]_vars

\* translate_da_result_for_viewing called on its own, time and again with the
\* same bucket_key and output_object_key; pc = "store" is the caller holding
\* the URN a call returned.
TR_Call ==
    /\ pc \in {"idle", "store"}
    /\ tr_calls < MaxTranslateCalls
    /\ tr_calls' = tr_calls + 1
    /\ manifest_at_call' = server_manifest
    /\ pc' = "tr_submit"
    /\ result' = NoOutcome
    /\ calls' = <<>>
    /\ inflight' = {}
    /\ elapsed_time' = 0
    /\ fetches' = 0
    /\ prior_ticks' = "none"
    /\ status_resp' = NoResponse
    /\ reported' = <<>>
    /\ diag' = "not_run"
    /\ UNCHANGED <<runs, storeVars, probeVars, gateVars, max_wait_time, tokenVars,
                   json_error_caught, server_manifest, viewVars, urnVars, cfgVars,
                   fileVars>>

\* The Model Derivative service works on the job it was given: pending, then
\* inprogress, then success or failed, where the manifest stays.
ServerProgress ==
    /\ \/ server_manifest = "pending" /\ server_manifest' = "inprogress"
       \/ server_manifest = "inprogress" /\ server_manifest' \in {"success", "failed"}
    /\ UNCHANGED <<pc, result, runs, calls, inflight, storeVars, probeVars, gateVars,
                   max_wait_time, translateVars, tokenVars, json_error_caught, auxVars>>

\* The answers GET .../manifest can give while the service holds server_manifest:
\* no answer or an error status at any time, 202 while the manifest is not
\* there yet, or the manifest with its status.
ServerAnswers(resp) ==
    \/ resp \in HttpFailures
    \/ resp = Http202 /\ server_manifest = "pending"
    \/ resp.code = 200 /\ resp.status = server_manifest

\* A pass of the poll loop whose fetch is answered by that service.
Translate_ServerTick(resp, d) ==
    /\ ServerAnswers(resp)
    /\ Translate_Tick(resp, d)

NextTranslate ==
    \/ TR_Call
    \/ \E t \in BOOLEAN, j \in BOOLEAN : Translate_Submit(t, j)
    \/ \E r \in StatusResponses, d \in DiagnosticOutcomes \cup {"not_run"} :
           Translate_ServerTick(r, d)
    \/ Translate_Sleep
    \/ Translate_Timeout
    \/ ServerProgress

SpecTranslate == Init /\ [][NextTranslate]_vars

\* get_viewables_from_urn on its own, for any manifest the service may answer with.
InitViewables ==
    /\ InitWith(MaxWaitTime)
    /\ vw_manifest \in Manifests
    /\ vw_result = NotCalled
    /\ InitNoUrn
    /\ InitNoConfig

ViewablesCall ==
    /\ ~vw_result.called
    /\ vw_result' = get_viewables(vw_manifest)
    /\ UNCHANGED <<pc, result, runs, calls, inflight, storeVars, probeVars, gateVars,
                   max_wait_time, translateVars, tokenVars, json_error_caught,
                   server_manifest, manifest_at_call, tr_calls, vw_manifest, urnVars,
                   cfgVars, fileVars>>

SpecViewables == InitViewables /\ [][ViewablesCall]_vars

\* The URN derivation on its own, for any two storage locations.
InitDerive ==
    /\ InitWith(MaxWaitTime)
    /\ InitNoView
    /\ InitNoConfig
    /\ loc_a \in Locations
    /\ loc_b \in Locations
    /\ urn_a = <<>>
    /\ urn_b = <<>>

DeriveA ==
    /\ urn_a = <<>>
    /\ urn_a' = derive(loc_a.bucket, loc_a.object)
    /\ UNCHANGED <<pc, result, runs, calls, inflight, storeVars, probeVars, gateVars,
                   max_wait_time, translateVars, tokenVars, json_error_caught,
                   server_manifest, manifest_at_call, tr_calls, viewVars,
                   loc_a, loc_b, urn_b, cfgVars, fileVars>>

DeriveB ==
    /\ urn_b = <<>>
    /\ urn_b' = derive(loc_b.bucket, loc_b.object)
    /\ UNCHANGED <<pc, result, runs, calls, inflight, storeVars, probeVars, gateVars,
                   max_wait_time, translateVars, tokenVars, json_error_caught,
                   server_manifest, manifest_at_call, tr_calls, viewVars,
                   loc_a, loc_b, urn_a, cfgVars, fileVars>>

NextDerive == DeriveA \/ DeriveB
SpecDerive == InitDerive /\ [][NextDerive]_vars

\* create_json_from_params on its own, for any targets table.
InitConfig ==
    /\ InitWith(MaxWaitTime)
    /\ InitNoView
    /\ InitNoUrn
    /\ cfg_targets \in TargetTables
    /\ cfg_result = NotBuilt

ConfigCall ==
    /\ cfg_result = NotBuilt
    /\ cfg_result' = create_json_from_params(cfg_targets)
    /\ UNCHANGED <<pc, result, runs, calls, inflight, storeVars, probeVars, gateVars,
                   max_wait_time, translateVars, tokenVars, json_error_caught,
                   server_manifest, manifest_at_call, tr_calls, viewVars, urnVars,
                   cfg_targets, fileVars>>

SpecConfig == InitConfig /\ [][ConfigCall]_vars

\* ================================================================ claims
Range(seq) == {seq[i] : i \in 1..Len(seq)}
InPollLoop == pc \in {"tr_poll", "tr_sleep"}
\* The status the last get_translation_status call returned.
LastStatus == get_translation_status(status_resp)
LastTerminal == LastStatus \in {"success", "failed"}
\* Every get_translation_status call of this translate call reported "inprogress".
AllInprogress == fetches > 0 /\ TicksSummary(prior_ticks, status_resp) = "inprogress"
\* The last handler to end was process_with_workitem: result is its outcome
\* and the run's variables are as it left them.
RunEnded == pc = "idle" /\ result.op = "process"
\* A process_with_workitem run has ended with this failure.
ProcessFailed(kind) == pc = "idle" /\ result = Failure("process", kind)
\* fetches = ceil(max_wait_time / poll_interval)
BudgetSpent ==
    /\ (fetches - 1) * poll_interval < max_wait_time
    /\ max_wait_time <= fetches * poll_interval

\* ---------------------------------------------------------------- C1
\* C1 (safety part): the poll loop makes at most ceil(max_wait_time /
\* poll_interval) fetches and never runs past the first multiple of
\* poll_interval that reaches max_wait_time; a translate call whose every
\* fetch reported "inprogress" can only end with the Timeout failure, and it
\* does so with elapsed_time = max_wait_time = 300 after 20 fetches.
C1_Bounded ==
    /\ fetches >= 1 => (fetches - 1) * poll_interval < max_wait_time
    /\ elapsed_time < max_wait_time + poll_interval
    /\ (AllInprogress /\ RunEnded) =>
           /\ ProcessFailed("Timeout")
           /\ BudgetSpent
           /\ elapsed_time = 300
           /\ fetches = 20
    /\ ProcessFailed("Timeout") => (elapsed_time >= max_wait_time /\ ~LastTerminal)

\* C1: the translation poll loop always terminates: C1_Bounded holds in every
\* state, and whenever the loop is running it is eventually left (with the
\* Timeout failure when every fetch reports "inprogress").
C1_PollLoopTerminates == [](C1_Bounded) /\ (InPollLoop ~> ~InPollLoop)

\* C1 witness: every one of the 20 fetches reported "inprogress" and the call
\* ended with Timeout at elapsed_time = 300.
C1_Witness ==
    /\ ProcessFailed("Timeout")
    /\ AllInprogress
    /\ fetches = 20
    /\ elapsed_time = 300

\* ---------------------------------------------------------------- C2
Before(a, b) ==
    \A i \in 1..Len(calls) : calls[i] = b => \E j \in 1..(i - 1) : calls[j] = a

\* C2: in every run of process_with_workitem the work item is executed only
\* after get_revit_version_from_oss_object has returned, and
\* translate_da_result_for_viewing is called only after work_item.execute
\* has returned; while the work item runs or the output is translated the
\* earlier phase is over.
C2_PhaseOrder ==
    /\ Before("detect_call", "detect_return")
    /\ Before("detect_return", "execute_call")
    /\ Before("execute_call", "execute_return")
    /\ Before("execute_return", "translate_call")
    /\ Before("translate_call", "translate_return")
    /\ pc = "wi_wait" => "detect_return" \in Range(calls)
    /\ pc \in {"tr_poll", "tr_sleep", "store"} => "execute_return" \in Range(calls)
    /\ "output_job" \in inflight => "execute_return" \in Range(calls)

\* C2 witness: a run went through all three phases in order.
C2_Witness ==
    /\ pc = "store"
    /\ calls = <<"detect_call", "detect_return", "execute_call", "execute_return",
                 "translate_call", "translate_return">>

\* ---------------------------------------------------------------- C3
\* C3 as claimed: at most one remote operation started by a run is in flight.
C3_NoTwoInFlight == Cardinality(inflight) <= 1

\* C3 as amended: the work item and the translation of its output never
\* overlap, and nothing else is in flight while the probe polls; the only
\* overlap is with the probe's own translation job, which is still in flight
\* when the probe returned a supported version before seeing a terminal
\* status.
C3_OnlyProbeJobOverlaps ==
    /\ ~({"work_item", "output_job"} \subseteq inflight)
    /\ "work_item" \in inflight => pc = "wi_wait"
    /\ pc \in {"probe_submit", "probe_poll", "probe_sleep", "gate"} =>
           inflight \subseteq {"probe_job"}
    /\ Cardinality(inflight) >= 2 =>
           /\ "probe_job" \in inflight
           /\ revit_version \in DOMAIN REVIT_VERSION_CONFIG

\* C3 witness: the output is being translated while the probe's job is still
\* in flight.
C3_Witness == pc = "tr_sleep" /\ inflight = {"probe_job", "output_job"}

\* ---------------------------------------------------------------- C4
\* C4: a work item is submitted only when detection returned a key of
\* REVIT_VERSION_CONFIG, and it targets the activity mapped to that version;
\* when detection returned None or an unmapped version the run ends before
\* any work item is submitted, with no activity chosen.
C4_GateFailsClosed ==
    /\ "execute_call" \in Range(calls) =>
           /\ revit_version \in {"2023", "2024", "2025", "2026"}
           /\ activity = REVIT_VERSION_CONFIG[revit_version].activity_name
    /\ activity # None => "detect_return" \in Range(calls)
    /\ ("detect_return" \in Range(calls) /\ pc # "gate"
            /\ revit_version \notin {"2023", "2024", "2025", "2026"}) =>
           /\ pc = "idle"
           /\ result.op = "process" =>
                  result.kind \in {"DetectionFailed", "UnsupportedVersion"}
           /\ "execute_call" \notin Range(calls)
           /\ "work_item" \notin inflight
           /\ activity = None

\* C4 witness: the work item runs for a model detected as Revit 2025.
C4_Witness ==
    /\ pc = "wi_wait"
    /\ revit_version = "2025"
    /\ activity = "TypeParametersActivity2025"

\* ---------------------------------------------------------------- C5
NoVersionIn(resp) == resp.code # 200 \/ resp.version \in {Absent, ""}

\* C5: while the probe polls, no manifest it fetched carried a version; the
\* probe hands back exactly the version of the last manifest (None when it
\* has none, also after the 60 s window); a run whose probe saw no version
\* ends with DetectionFailed, and one whose probe saw a version outside the
\* known set ends with UnsupportedVersion listing 2023, 2024, 2025, 2026.
C5_DetectionFailures ==
    /\ pc \in {"probe_poll", "probe_sleep"} => NoVersionIn(probe_resp)
    /\ pc = "gate" =>
           revit_version = (IF NoVersionIn(probe_resp) THEN None ELSE probe_resp.version)
    /\ (RunEnded /\ "detect_return" \in Range(calls) /\ activity = None) =>
           /\ revit_version = (IF NoVersionIn(probe_resp) THEN None ELSE probe_resp.version)
           /\ NoVersionIn(probe_resp) => result = Failure("process", "DetectionFailed")
           /\ ~NoVersionIn(probe_resp) =>
                  /\ probe_resp.version = "2099"
                  /\ result = Outcome("process", "UnsupportedVersion", 0,
                                      {"2023", "2024", "2025", "2026"})
    /\ elapsed <= 60
    /\ probe_fetches <= 12

\* C5 witness: the manifest carried no version on any of the 12 ticks of the
\* 60 s window and the run ended with DetectionFailed.
C5_Witness ==
    /\ ProcessFailed("DetectionFailed")
    /\ elapsed = 60
    /\ probe_fetches = 12
    /\ probe_resp.code = 200
    /\ probe_resp.status = "inprogress"

\* ---------------------------------------------------------------- C6
\* The run set exactly one of the two storage keys.
PartlyStored == written # {} /\ written # StorageKeys

\* The work item's final status decides: anything but "success" ends the run
\* with JobFailed before translation and before any storage write.
C6_JobFailureIsFatal ==
    /\ ("translate_call" \in Range(calls) \/ written # {} \/ "output_job" \in inflight) =>
           last_status = "success"
    /\ (RunEnded /\ last_status \in {"failed", "cancelled", ""}) =>
           /\ result = Failure("process", "JobFailed")
           /\ "translate_call" \notin Range(calls)
           /\ written = {}

\* C6 as claimed: a work-item status other than "success" is fatal (no
\* translation, nothing written), and no run that ended in a failure has
\* left a partly stored result.
C6_NoPartialResult ==
    /\ C6_JobFailureIsFatal
    /\ (RunEnded /\ result.kind \notin {"success", "reused"}) => ~PartlyStored

\* C6 as amended: a work-item status other than "success" is fatal (no
\* translation, nothing written); a run that fails in any phase up to and
\* including the download of the output has written nothing; the only partly
\* stored result is the output file without the URN, left by a failure of
\* the URN write that follows the file write.
C6_PartialOnlyOnUrnWriteFailure ==
    /\ C6_JobFailureIsFatal
    /\ pc # "idle" => written = {}
    /\ RunEnded => \A k \in written : storage[k] = runs
    /\ (RunEnded /\ result.kind \notin {"success", "reused", "ViewError", "StoreFailed"}) =>
           written = {}
    /\ (RunEnded /\ result.kind \in {"success", "ViewError"}) => written \in {{}, StorageKeys}
    /\ PartlyStored =>
           /\ written = {STORED_OUTPUT_FILE_KEY}
           /\ pc = "idle"
           /\ result.op = "process" => result.kind = "StoreFailed"

\* C6 witness: the work item ended "failed" and the run ended with JobFailed.
C6_Witness ==
    /\ ProcessFailed("JobFailed")
    /\ last_status = "failed"
    /\ storage = [k \in StorageKeys |-> 0]

\* ---------------------------------------------------------------- C7
\* C7 as claimed: the token endpoint issues at most one token per credential,
\* whatever the order of the get_token calls.
C7_OneIssuePerCredential == \A c \in Credentials : issued[c] <= 1

\* ---------------------------------------------------------------- C8
\* C8: a pass of the poll loop reports progress_pct first, which is
\* elapsed_time / max_wait_time * 100 capped at 99, and reports 100 only
\* second and only when the pass observed "success".
C8_ProgressBelow100UntilSuccess ==
    /\ Len(reported) <= 2
    /\ Len(reported) >= 1 =>
           /\ reported[1] <= 99
           /\ \/ reported[1] * max_wait_time = elapsed_time * 100
              \/ reported[1] = 99 /\ elapsed_time * 100 >= 99 * max_wait_time
    /\ Len(reported) = 2 => (reported[2] = 100 /\ LastStatus = "success")
    /\ (LastStatus # "success" /\ status_resp.code # -1) =>
           \A i \in 1..Len(reported) : reported[i] <= 99

\* C8 witness: the last pass within the budget reported 95 and went on.
C8_Witness ==
    /\ pc = "tr_sleep"
    /\ elapsed_time = 285
    /\ reported = <<95>>

\* ---------------------------------------------------------------- C9
\* C9: while the loop runs no fetch has observed "success" or "failed"; the
\* call returns (the URN of the run's bucket is what gets stored) exactly
\* when the last fetch observed "success", fails with TranslationFailed
\* exactly when it observed "failed", and fails with Timeout exactly when
\* ceil(max_wait_time / poll_interval) fetches were made and the last one
\* observed neither.
C9_FirstTerminalStatusDecides ==
    /\ InPollLoop => ~LastTerminal
    /\ "translate_return" \in Range(calls) <=> LastStatus = "success"
    /\ pc = "store" => LastStatus = "success"
    /\ (RunEnded /\ fetches >= 1) =>
           /\ LastStatus = "success" <=>
                  result.kind \in {"success", "ViewError", "StoreFailed", "DownloadFailed"}
           /\ LastStatus = "failed" <=> result.kind = "TranslationFailed"
           /\ ~LastTerminal <=> result.kind = "Timeout"
           /\ result.kind = "Timeout" => BudgetSpent
           /\ result.kind = "success" => result.value = runs

\* C9 witness: "success" was observed by the last fetch the budget allows.
C9_Witness ==
    /\ pc = "store"
    /\ fetches = 20
    /\ elapsed_time = 285

\* ---------------------------------------------------------------- C10
\* C10 (checked with max_wait_time = 5 * poll_interval): after four fetches
\* that all reported "inprogress" the loop is still running with the fifth
\* pass ahead; when the fifth fetch then reports "success" the call has
\* returned; and no sixth fetch is ever made.
C10_FiveTicks ==
    /\ max_wait_time = 5 * poll_interval
    /\ fetches <= 5
    /\ (fetches = 4 /\ AllInprogress) =>
           /\ InPollLoop
           /\ elapsed_time < max_wait_time
    /\ (fetches = 5 /\ prior_ticks = "inprogress" /\ LastStatus = "success") =>
           /\ ~InPollLoop
           /\ calls[Len(calls)] = "translate_return"
           /\ pc = "store" \/ (pc = "idle" /\ result.kind # "Timeout")

\* C10 witness: four "inprogress" and then "success": the call returned after
\* its fifth fetch.
C10_Witness ==
    /\ pc = "store"
    /\ fetches = 5
    /\ prior_ticks = "inprogress"
    /\ LastStatus = "success"
    /\ max_wait_time = 5 * poll_interval

\* ---------------------------------------------------------------- C11
\* C11: once a fetch of the poll loop has observed "failed" the loop is over
\* and the run has ended with TranslationFailed, whatever the extra manifest
\* fetch met (no answer, a status code other than 200, a body that is not
\* JSON, empty or malformed derivatives); the extra fetch is made only then.
C11_FailedStaysTranslationFailed ==
    /\ (fetches >= 1 /\ LastStatus = "failed") =>
           /\ pc = "idle"
           /\ diag \in DiagnosticOutcomes
           /\ RunEnded => ProcessFailed("TranslationFailed")
    /\ diag # "not_run" => (fetches >= 1 /\ LastStatus = "failed")
    /\ InPollLoop => diag = "not_run"

\* C11 witness: the extra fetch got no answer and the run still ended with
\* TranslationFailed.
C11_Witness ==
    /\ ProcessFailed("TranslationFailed")
    /\ diag = "transport_error"
    /\ LastStatus = "failed"

\* ---------------------------------------------------------------- C12
\* Every get_translation_status call of this translate call raised a RequestException.
AllErrors == fetches > 0 /\ TicksSummary(prior_ticks, status_resp) = "error"

\* C12: a fetch that raises a RequestException reports nothing and raises
\* nothing: the loop goes on to its sleep; a run whose last fetch raised one
\* can only end with Timeout, after ceil(max_wait_time / poll_interval)
\* fetches, and so does a run whose every fetch raised one; the number of
\* fetches never exceeds that bound.
C12_TransportErrorsBounded ==
    /\ (fetches >= 1 /\ LastStatus = "RequestException") =>
           /\ pc \in {"tr_sleep", "tr_poll", "idle"}
           /\ pc \in {"tr_sleep", "tr_poll"} => result = NoOutcome
           /\ pc = "tr_sleep" => reported = <<>>
           /\ RunEnded => (ProcessFailed("Timeout") /\ BudgetSpent)
    /\ (AllErrors /\ RunEnded) => (ProcessFailed("Timeout") /\ BudgetSpent)
    /\ fetches >= 1 => (fetches - 1) * poll_interval < max_wait_time
    /\ result.kind # "UnexpectedError"

\* C12 witness: every fetch the budget allows raised a RequestException and
\* the run ended with Timeout.
C12_Witness ==
    /\ ProcessFailed("Timeout")
    /\ AllErrors
    /\ BudgetSpent
    /\ elapsed_time = max_wait_time

\* ---------------------------------------------------------------- C13
\* C13: the probe never goes on polling after a manifest that carries a
\* non-empty version, whatever that manifest's status: it hands that version
\* back on the very tick that fetched it, before any further sleep.
C13_VersionReturnedWhateverStatus ==
    /\ pc \in {"probe_poll", "probe_sleep"} =>
           (probe_resp.code # 200 \/ probe_resp.version \in {Absent, ""})
    /\ (pc = "gate" /\ probe_resp.code = 200 /\ probe_resp.version \notin {Absent, ""}) =>
           /\ revit_version = probe_resp.version
           /\ elapsed = (probe_fetches - 1) * interval

\* C13 witness: the second tick's manifest had status "failed" and carried
\* version 2024, which the probe returned.
C13_Witness ==
    /\ pc = "gate"
    /\ probe_fetches = 2
    /\ probe_resp.status = "failed"
    /\ probe_resp.version = "2024"
    /\ revit_version = "2024"

\* ---------------------------------------------------------------- C14
\* C14: a fetch of the translation poll loop answered with HTTP 202 counts as
\* "inprogress": it makes no extra fetch and raises nothing, the job is not
\* taken for finished, the pass reports its percentage and goes on to the
\* sleep, and a run whose last fetch got a 202 can only have ended by Timeout.
C14_Http202IsInprogress ==
    (fetches >= 1 /\ status_resp = Http202) =>
        /\ LastStatus = "inprogress"
        /\ diag = "not_run"
        /\ "output_job" \in inflight
        /\ pc \in {"tr_sleep", "tr_poll", "idle"}
        /\ pc = "tr_sleep" => reported = <<ProgressPct(elapsed_time, max_wait_time)>>
        /\ pc \in {"tr_sleep", "tr_poll"} => result = NoOutcome
        /\ RunEnded => ProcessFailed("Timeout")

\* C14 witness: the first fetch got a 202 and the loop is at its sleep.
C14_Witness ==
    /\ pc = "tr_sleep"
    /\ fetches = 1
    /\ status_resp = Http202
    /\ reported = <<0>>

\* ---------------------------------------------------------------- C15
\* C15 as claimed: in the probe loop a manifest fetch answered with HTTP 202
\* and no body never ends detection: when the last fetch got a 202 and the
\* probe has returned, it returned because the 60 s window was over.
C15_Probe202KeepsPolling ==
    (pc = "gate" /\ probe_resp = Http202) => elapsed >= max_wait

\* The same statement for the builds in which the error response.json() raises
\* on the empty body is a RequestException.
C15_Probe202KeepsPollingWhenCaught ==
    json_error_caught => C15_Probe202KeepsPolling

\* ---------------------------------------------------------------- C16
\* C16 as claimed: when translate is called for a URN whose manifest is
\* already "success", the manifest is still "success" when the poll loop
\* starts, and the first fetch that gets a manifest sees "success" and the
\* call returns the URN there and then.
C16_TranslatedUrnReturnsOnFirstTick ==
    /\ (manifest_at_call = "success" /\ pc = "tr_poll" /\ fetches = 0) =>
           server_manifest = "success"
    /\ (manifest_at_call = "success" /\ fetches = 1 /\ status_resp.code = 200) =>
           /\ LastStatus = "success"
           /\ pc = "store"
           /\ elapsed_time = 0

\* ---------------------------------------------------------------- C17
\* Every "children" entry of the tree is a list or missing.
RECURSIVE WellFormedChildren(_)
WellFormedChildren(children) ==
    /\ children.kind \in {"absent", "list"}
    /\ \A i \in 1..Len(children.items) : WellFormedChildren(children.items[i].children)

WellFormed(manifest) ==
    \A i \in 1..Len(manifest.derivatives.items) :
        WellFormedChildren(manifest.derivatives.items[i].children)

\* The nodes of a tree, each parent before its children and the children in
\* the order of their list.
RECURSIVE Preorder(_)
Preorder(children) ==
    IF children.items = <<>> THEN <<>>
    ELSE <<Head(children.items)>>
             \o Preorder(Head(children.items).children)
             \o Preorder(JList(Tail(children.items)))

RECURSIVE PreorderOfAll(_)
PreorderOfAll(derivatives) ==
    IF derivatives = <<>> THEN <<>>
    ELSE Preorder(Head(derivatives).children) \o PreorderOfAll(Tail(derivatives))

HasViewableRoleAndId(node) ==
    /\ node.role = "2d" \/ node.role = "3d"
    /\ node.guid # Absent
    /\ node.guid # ""

IdsAndRoles(nodes) == [i \in 1..Len(nodes) |-> <<nodes[i].guid, nodes[i].role>>]

ExampleManifest ==
    [derivatives |-> JList(<<
        [children |-> JList(<<
            [role |-> "3d", guid |-> "g1", children |-> JAbsent],
            [role |-> "meta", guid |-> "g2", children |->
                JList(<<[role |-> "2d", guid |-> "g3", children |-> JAbsent]>>)]>>)]>>)]

\* C17: for a manifest whose "children" entries are lists, the call returns
\* exactly the nodes with role 2d or 3d and a non-empty id, in the order of a
\* depth-first walk that visits a parent before its children and descends
\* into every node, with duplicate ids kept; the example tree yields g1 (3d)
\* and then g3 (2d).
C17_ViewablesInPreorder ==
    (vw_result.called /\ WellFormed(vw_manifest)) =>
        /\ ~vw_result.raised
        /\ IdsAndRoles(vw_result.viewables) =
               IdsAndRoles(SelectSeq(PreorderOfAll(vw_manifest.derivatives.items),
                                     HasViewableRoleAndId))
        /\ vw_manifest = ExampleManifest =>
               IdsAndRoles(vw_result.viewables) = <<(<<"g1", "3d">>), (<<"g3", "2d">>)>>

\* C17 witness: the call was made on the example tree and returned g1, g3.
C17_Witness ==
    /\ vw_result.called
    /\ vw_manifest = ExampleManifest
    /\ Len(vw_result.viewables) = 2
    /\ vw_result.viewables[1].guid = "g1"
    /\ vw_result.viewables[2].guid = "g3"

\* A qualifying parent with a qualifying child of the same id: both are
\* returned, the parent first.
C17_DuplicateKept ==
    /\ vw_result.called
    /\ IdsAndRoles(vw_result.viewables) = <<(<<"g1", "3d">>), (<<"g1", "2d">>)>>

\* ---------------------------------------------------------------- C18
\* C18 as claimed: the extraction raises nothing, whatever the manifest.
C18_ExtractViewablesTotal == vw_result.called => ~vw_result.raised

\* What holds: nothing is raised when derivatives or children are missing or
\* empty, or when a node lacks role or id.
C18_TotalOnLists ==
    (vw_result.called /\ WellFormed(vw_manifest)) => ~vw_result.raised

\* ---------------------------------------------------------------- C19
\* The cache holds only tokens the endpoint issued, each for a credential it
\* issued one to.
C19_OnlyIssuedTokensCached ==
    \A i \in 1..Len(token_cache) :
        /\ token_cache[i].token >= 1
        /\ issued[token_cache[i].cred] >= 1

\* C19: a get_token call whose POST is answered with an error status (a
\* network call that issues no token) raises, leaves the cache as it was and
\* leaves its credential uncached, so that the next call with that
\* credential is a miss and goes to the network again; the cache never holds
\* anything but issued tokens.
C19_FailureIsNotCached ==
    /\ [](C19_OnlyIssuedTokensCached)
    /\ [][\A c \in Credentials :
             (net_calls'[c] = net_calls[c] + 1 /\ issued'[c] = issued[c]) =>
                 /\ last_token' = 0
                 /\ token_cache' = token_cache
                 /\ ~CacheHit(token_cache', c)]_vars

\* C19 witness: one credential alone was used; its first call failed, the
\* second went to the network again and got the token now cached.
C19_Witness ==
    \E c \in Credentials :
        /\ net_calls[c] = 2
        /\ issued[c] = 1
        /\ \A d \in Credentials \ {c} : net_calls[d] = 0
        /\ CacheHit(token_cache, c)
        /\ last_token = CachedToken(token_cache, c)

\* ---------------------------------------------------------------- C20
\* The text a location is encoded from, as line 233 builds it.
OssObjectId(loc) == UrnPrefix \o loc.bucket \o <<Slash>> \o loc.object

\* C20: once both URNs are derived, neither holds a "=", each has the length
\* of an unpadded base64 text, made of characters of the alphabet, equal
\* locations have equal URNs and different locations have different URNs.
C20_DeriveInjectiveUnpadded ==
    (urn_a # <<>> /\ urn_b # <<>>) =>
        /\ "=" \notin Range(urn_a)
        /\ "=" \notin Range(urn_b)
        /\ Range(urn_a) \cup Range(urn_b) \subseteq Range(B64Alphabet)
        /\ Len(urn_a) = (8 * Len(OssObjectId(loc_a)) + 5) \div 6
        /\ loc_a = loc_b => urn_a = urn_b
        /\ loc_a # loc_b => urn_a # urn_b

\* C20 witness: two different locations whose texts need padding (lengths
\* 31 and 32) got two different URNs of 42 and 43 characters.
C20_Witness ==
    /\ urn_a # <<>>
    /\ urn_b # <<>>
    /\ loc_a.bucket = loc_b.bucket
    /\ Len(OssObjectId(loc_a)) = 31
    /\ Len(OssObjectId(loc_b)) = 32
    /\ Len(urn_a) = 42
    /\ Len(urn_b) = 43
    /\ urn_a # urn_b

\* The encoding agrees with Python's on a sample:
\* safe_base64_encode("urn:adsk.objects:os.object:ab/~") = "dXJuOmFkc2sub2JqZWN0czpvcy5vYmplY3Q6YWIvfg".
C20_Sample ==
    (urn_a # <<>> /\ loc_a = [bucket |-> <<97, 98>>, object |-> <<126>>]) =>
        urn_a = <<"d", "X", "J", "u", "O", "m", "F", "k", "c", "2", "s", "u", "b", "2",
                  "J", "q", "Z", "W", "N", "0", "c", "z", "p", "v", "c", "y", "5", "v",
                  "Y", "m", "p", "l", "Y", "3", "Q", "6", "Y", "W", "I", "v", "f", "g">>

\* ---------------------------------------------------------------- C21
\* The (parameter_name, parameter_group) pair of row i of the table.
PairOfRow(i) == <<cfg_targets[i].parameter_name, cfg_targets[i].parameter_group>>
\* The rows whose pair appears there for the first time.
FirstAppearances ==
    {i \in 1..Len(cfg_targets) : \A j \in 1..(i - 1) : PairOfRow(j) # PairOfRow(i)}
\* The n-th smallest member of a set of numbers.
NthOf(S, n) == CHOOSE x \in S : Cardinality({y \in S : y < x}) = n - 1
\* The rows with the same pair as row i.
RowsLike(i) == {j \in 1..Len(cfg_targets) : PairOfRow(j) = PairOfRow(i)}

RECURSIVE TotalTargets(_)
TotalTargets(configs) ==
    IF configs = <<>> THEN 0 ELSE Len(Head(configs).Targets) + TotalTargets(Tail(configs))

\* C21: the list returned for a table holds one configuration per distinct
\* (parameter_name, parameter_group) pair, the k-th configuration being that
\* of the k-th pair to appear; its Targets are the rows with that pair, in
\* table order, built from type_name, family_name and value; the Targets of
\* all configurations together are as many as the table has rows.
C21_OneConfigPerPair ==
    cfg_result # NotBuilt =>
        /\ Len(cfg_result) = Cardinality(FirstAppearances)
        /\ \A k \in 1..Len(cfg_result) :
               LET first == NthOf(FirstAppearances, k)
                   rows == RowsLike(first)
               IN /\ <<cfg_result[k].ParameterName, cfg_result[k].ParameterGroup>> =
                         PairOfRow(first)
                  /\ Len(cfg_result[k].Targets) = Cardinality(rows)
                  /\ \A n \in 1..Cardinality(rows) :
                         LET row == cfg_targets[NthOf(rows, n)]
                         IN cfg_result[k].Targets[n] =
                                [TypeName |-> row.type_name,
                                 FamilyName |-> row.family_name,
                                 Value |-> row.value]
        /\ TotalTargets(cfg_result) = Len(cfg_targets)

\* C21 witness: three rows, the first and third with the same pair: two
\* configurations, the first with two targets.
C21_Witness ==
    /\ cfg_result # NotBuilt
    /\ Len(cfg_targets) = 3
    /\ PairOfRow(1) = PairOfRow(3)
    /\ PairOfRow(1) # PairOfRow(2)
    /\ cfg_targets[1].parameter_name = cfg_targets[2].parameter_name
    /\ Len(cfg_result) = 2
    /\ Len(cfg_result[1].Targets) = 2
    /\ cfg_result[1].Targets[2].TypeName = cfg_targets[3].type_name

\* ---------------------------------------------------------------- C26
\* ceil(max_wait / interval)
MaxProbeFetches == (max_wait + interval - 1) \div interval
InProbeLoop == pc \in {"probe_poll", "probe_sleep"}
\* The last tick's manifest is over and carries no version.
TerminalWithoutVersion ==
    SeenTerminal(probe_resp) /\ get_revit_version_from_manifest(probe_resp) = None

\* C26: a tick whose manifest has status success or failed and no version
\* ends the probe on that tick: the detector returns no version, with the
\* window not yet elapsed and without the tick's sleep, and no fetch follows
\* such a tick; the detector never fetches the manifest more than
\* ceil(max_wait / interval) = 12 times.
C26_ProbeBreaksOnTerminal ==
    /\ [](/\ probe_fetches <= MaxProbeFetches
          /\ MaxProbeFetches = 12
          /\ (InProbeLoop => ~TerminalWithoutVersion)
          /\ (pc = "gate" /\ TerminalWithoutVersion =>
                 /\ revit_version = None
                 /\ elapsed < max_wait
                 /\ elapsed = (probe_fetches - 1) * interval))
    /\ [][TerminalWithoutVersion => probe_fetches' <= probe_fetches]_vars

\* C26 witness: the first tick finds status success and no version; the
\* detector is back with no version after one fetch and no sleep.
C26_Witness ==
    /\ pc = "gate"
    /\ probe_fetches = 1
    /\ probe_resp = [code |-> 200, status |-> "success", version |-> Absent]
    /\ elapsed = 0
    /\ revit_version = None

\* ---------------------------------------------------------------- C27
DetectorCalled == "detect_call" \in Range(calls)
DetectorReturned == "detect_return" \in Range(calls)

\* C27: whatever happens inside it, the detector returns: a handler that
\* called it is either still inside it or has its return, and no run ends in
\* an error of the probe.  A failed submission returns no version without any
\* manifest fetch; a tick with a transport error never leaves the loop, so
\* transport errors on every tick return no version once the window is over;
\* no version at the gate ends the run in DetectionFailed.
C27_ProbeNeverRaises ==
    /\ [](/\ (DetectorCalled /\ ~DetectorReturned) => InProbeLoop
          /\ (DetectorReturned /\ pc = "gate" /\ probe_fetches = 0) => revit_version = None
          /\ InProbeLoop => revit_version = None
          /\ (ProcessFailed("DetectionFailed") /\ RunEnded) =>
                 (DetectorReturned /\ revit_version = None))
    /\ [][/\ (pc = "probe_submit" /\ pc' # "probe_poll") =>
                (/\ pc' = "gate"
                 /\ revit_version' = None
                 /\ probe_fetches' = 0
                 /\ calls' = calls \o <<"detect_call", "detect_return">>)
          /\ (InProbeLoop /\ probe_fetches' # probe_fetches
                 /\ FetchRaisesRequestException(probe_resp')) =>
                (pc' = "probe_sleep" /\ revit_version' = None)
          /\ (pc = "probe_poll" /\ probe_fetches' = probe_fetches /\ pc' # pc) =>
                (/\ pc' = "gate"
                 /\ revit_version' = None
                 /\ elapsed >= max_wait
                 /\ probe_fetches = MaxProbeFetches)
          /\ (pc = "gate" /\ revit_version = None) =>
                (pc' = "idle" /\ result' = Failure("process", "DetectionFailed"))]_vars

\* C27 witness: the probe job could not be submitted; the run ended in
\* DetectionFailed and no manifest was fetched.
C27_Witness ==
    /\ RunEnded
    /\ ProcessFailed("DetectionFailed")
    /\ calls = <<"detect_call", "detect_return">>
    /\ probe_fetches = 0
    /\ "probe_job" \notin inflight

\* The window passed with a transport error on the last of its 12 ticks.
C27_ErrorsUntilTheEnd ==
    /\ RunEnded
    /\ ProcessFailed("DetectionFailed")
    /\ probe_fetches = MaxProbeFetches
    /\ FetchRaisesRequestException(probe_resp)
    /\ elapsed = max_wait

\* ---------------------------------------------------------- C22 .. C25
NoStorage == [k \in StorageKeys |-> 0]
\* The output-file key is in this storage.
FileStored(st) == st[STORED_OUTPUT_FILE_KEY] # 0
\* A step in which a handler was called and returned at once.
HandlerReturnsAtOnce(op) == pc = "idle" /\ pc' = "idle" /\ result'.op = op
\* A step in which process_with_workitem was called with a file.
ProcessCallWithFile ==
    /\ pc = "idle"
    /\ params'.cad_file # None
    /\ result'.op \in {"process", "none"}
\* A step in which a handler was called without a file.
CallWithoutFile(op) == HandlerReturnsAtOnce(op) /\ params'.cad_file = None
\* A step in which download_updated_model was called with a file.
DownloadCallWithFile == HandlerReturnsAtOnce("download") /\ params'.cad_file # None
\* The step contacts no remote service and starts no run.
NothingRemote ==
    /\ calls' \in {calls, <<>>}
    /\ inflight' \in {inflight, {}}
    /\ UNCHANGED <<runs, net_calls, issued>>

\* ---------------------------------------------------------------- C22
\* C22: with a URN stored, a process_with_workitem call with a file, whatever
\* the file and the table, ends at once: no upload, detection, work item or
\* translation, storage as it was, and the view it builds is that of the
\* stored URN (the call fails only when building the view fails).  The stored
\* URN changes only by being removed in a call without a file.
C22_StoredUrnReused ==
    /\ [][(ProcessCallWithFile /\ storage[STORED_OUTPUT_URN_KEY] # 0) =>
             /\ pc' = "idle"
             /\ calls' = <<>>
             /\ inflight' = {}
             /\ NothingRemote
             /\ UNCHANGED <<storage, stored_from>>
             /\ result' \in {Outcome("process", "reused", storage[STORED_OUTPUT_URN_KEY], {}),
                             Failure("process", "ViewError")}]_vars
    /\ [][(storage[STORED_OUTPUT_URN_KEY] # 0
              /\ storage'[STORED_OUTPUT_URN_KEY] # storage[STORED_OUTPUT_URN_KEY]) =>
             /\ storage' = NoStorage
             /\ params'.cad_file = None
             /\ pc = "idle"]_vars

\* C22 witness: the stored result of a run on one file and table was
\* returned to a call with the other file and the other table.
C22_Witness ==
    /\ pc = "idle"
    /\ result = Outcome("process", "reused", storage[STORED_OUTPUT_URN_KEY], {})
    /\ storage[STORED_OUTPUT_URN_KEY] # 0
    /\ stored_from.cad_file = "a.rvt"
    /\ params.cad_file = "b.rvt"
    /\ params.targets # stored_from.targets
    /\ calls = <<>>

\* ---------------------------------------------------------------- C23
\* C23: the URN key is in storage only if the output-file key is.
C23_UrnOnlyWithFile ==
    storage[STORED_OUTPUT_URN_KEY] # 0 => storage[STORED_OUTPUT_FILE_KEY] # 0

\* What holds: no run of process_with_workitem leaves a URN without its
\* file; only a step of clear_da_storage does.
C23_OnlyClearSplits ==
    [][(C23_UrnOnlyWithFile /\ ~C23_UrnOnlyWithFile') =>
          (\E op \in {"process", "download"} : CallWithoutFile(op))
          /\ result'.kind = "StorageError"]_vars

\* ---------------------------------------------------------------- C24
\* C24 as stated: a call without a file empties storage and fails with the
\* user error, and the output file comes back only with a successful run.
C24_ClearedUntilSuccess ==
    [][/\ (\E op \in {"process", "download"} : CallWithoutFile(op) /\ result' # result) =>
             (storage' = NoStorage /\ result'.kind = "UserError: upload a file first")
       /\ (~FileStored(storage) /\ FileStored(storage')) =>
             result' = Outcome("process", "success", runs, {})]_vars

\* C24: a call without a file contacts nothing; when no delete fails it
\* leaves storage empty and fails with the user error, and when a delete
\* fails it fails with that error, the URN kept and the file kept or gone.
\* While the output file is absent a download with a file fails with "no
\* updated model"; the file comes back only in the storing step of a run,
\* which ends in success or, after the file write, in StoreFailed or
\* ViewError.
C24_ClearedUntilFileWritten ==
    [][/\ \A op \in {"process", "download"} :
             CallWithoutFile(op) =>
                /\ NothingRemote
                /\ result' \in {Failure(op, "UserError: upload a file first"),
                                Failure(op, "StorageError")}
                /\ result'.kind = "UserError: upload a file first" => storage' = NoStorage
                /\ result'.kind = "StorageError" =>
                       /\ storage'[STORED_OUTPUT_URN_KEY] = storage[STORED_OUTPUT_URN_KEY]
                       /\ storage'[STORED_OUTPUT_FILE_KEY] \in {0, storage[STORED_OUTPUT_FILE_KEY]}
       /\ (DownloadCallWithFile /\ ~FileStored(storage)) =>
             result' = Failure("download", "UserError: no updated model")
       /\ (~FileStored(storage) /\ FileStored(storage')) =>
             /\ pc = "store"
             /\ result' \in {Outcome("process", "success", runs, {}),
                             Failure("process", "StoreFailed"),
                             Failure("process", "ViewError")}]_vars

\* C24 witness: after a run, storage is empty and a download with a file
\* has found no model.
C24_Witness ==
    /\ pc = "idle"
    /\ runs >= 1
    /\ storage = NoStorage
    /\ stored_from = NoParams
    /\ params.cad_file # None
    /\ result = Failure("download", "UserError: no updated model")

\* ---------------------------------------------------------------- C25
\* C25 as stated: the output file is in storage exactly when the last step
\* that changed storage was the end of a fully successful run.
C25_FileIffLastRunSucceeded ==
    [][storage' # storage =>
          (FileStored(storage') <=> result' = Outcome("process", "success", runs, {}))]_vars

\* C25: a download with a file returns the stored output file exactly when
\* the output-file key is in storage and fails with the user error
\* otherwise; it contacts nothing and leaves storage as it was.  The key is
\* in storage exactly when the last step that changed storage was the
\* storing step of a run, whether the run then succeeded or failed.
C25_DownloadReadsFileKey ==
    [][/\ DownloadCallWithFile =>
             /\ IF FileStored(storage)
                THEN result' = Outcome("download", "file", storage[STORED_OUTPUT_FILE_KEY], {})
                ELSE result' = Failure("download", "UserError: no updated model")
             /\ UNCHANGED <<storage, stored_from>>
             /\ NothingRemote
       /\ storage' # storage =>
             (storage'[STORED_OUTPUT_FILE_KEY] # 0 <=> pc = "store")]_vars

\* C25 witness: storage holds the output file of a run that failed writing
\* the URN, and the download returned it.
C25_Witness ==
    /\ pc = "idle"
    /\ storage[STORED_OUTPUT_FILE_KEY] # 0
    /\ storage[STORED_OUTPUT_URN_KEY] = 0
    /\ stored_from = params
    /\ result = Outcome("download", "file", storage[STORED_OUTPUT_FILE_KEY], {})

====
